---- MODULE Spec2Model ----
(***************************************************************************)
(* The Dusty efficiency linter (tools/dusty/index.js): the dependency      *)
(* matcher, the depth-tracking tree walker, the diagnostic emitter and the *)
(* DustyLinter facade (lint / getErrors / reset).                          *)
(*                                                                         *)
(* Module specifiers are TLA+ strings; startsWith is computed on their     *)
(* characters.  A syntax tree is a sequence of nodes numbered in           *)
(* depth-first pre-order, each naming its parent (0 for the root).         *)
(***************************************************************************)
EXTENDS Integers, Sequences, FiniteSets, TLC

VARIABLES
  query,            \* argument of the last direct isHeavyDependency call
  answer,           \* its return value
  config,           \* the configured heavy-dependency set (dusty.config.json)
  errors,           \* this.errors
  calls,            \* number of lint()/reset() calls made
  pc,               \* "idle": no call in progress; "walk": inside walkNode
  filePath,         \* lint's filePath argument
  content,          \* lint's content argument
  attempts,         \* the parse attempts lint made, in order
  warned,           \* lint printed "Unable to parse"
  ast,              \* the tree handed to checkLazyImportHeavyDeps
  stack,            \* pending walkNode work: frames [node, phase]
  currentDepth,     \* checkLazyImportHeavyDeps' currentDepth
  topLevelImports,  \* its Set topLevelImports, in insertion order
  lazyImports,      \* its Set lazyImports, in insertion order
  expected          \* history: the diagnostics owed since the last reset
\* filePath .. lazyImports are those of the call made last; a reset() call has
\* none of them.

vars == <<query, answer, config, errors, calls, pc, filePath, content,
          attempts, warned, ast, stack, currentDepth, topLevelImports,
          lazyImports, expected>>

matchVars == <<query, answer>>
lintVars == <<errors, calls, pc, filePath, content, attempts, warned, ast,
              stack, currentDepth, topLevelImports, lazyImports, expected>>

-----------------------------------------------------------------------------
(* Strings and arrays                                                       *)

\* String.prototype.startsWith
startsWith(s, p) == Len(s) >= Len(p) /\ SubSeq(s, 1, Len(p)) = p

\* Array.prototype.includes
includes(arr, x) == \E i \in DOMAIN arr : arr[i] = x

\* An add that does not look for the element first.
SetAddAgain(set, x) == Append(set, x)

\* Set.prototype.add on an insertion-ordered set
SetAdd(set, x) == IF includes(set, x) THEN set ELSE Append(set, x)

-----------------------------------------------------------------------------
(* Dependency matcher                                                       *)

HEAVY_DEPENDENCIES ==
  << "webpack", "rollup", "vite", "esbuild", "parcel",
     "jest", "mocha", "jasmine", "cypress", "playwright",
     "babel", "@babel/core", "typescript", "ts-node",
     "eslint", "prettier", "jshint",
     "lodash", "moment", "axios", "request",
     "react", "vue", "angular", "express",
     "nodemon", "pm2", "forever" >>

\* The matcher without the '@' + dep + '/' clause.
isHeavyDependencyNoScope(moduleName) ==
  IF includes(HEAVY_DEPENDENCIES, moduleName) THEN TRUE
  ELSE \E i \in DOMAIN HEAVY_DEPENDENCIES :
         LET dep == HEAVY_DEPENDENCIES[i] IN
           \/ startsWith(moduleName, dep \o "/")
           \/ (startsWith(dep, "@") /\ startsWith(moduleName, dep \o "/"))

isHeavyDependency(moduleName) ==
  IF includes(HEAVY_DEPENDENCIES, moduleName) THEN TRUE
  ELSE \E i \in DOMAIN HEAVY_DEPENDENCIES :
         LET dep == HEAVY_DEPENDENCIES[i] IN
           \/ startsWith(moduleName, dep \o "/")
           \/ startsWith(moduleName, "@" \o dep \o "/")
           \/ (startsWith(dep, "@") /\ startsWith(moduleName, dep \o "/"))

-----------------------------------------------------------------------------
(* Syntax trees, as the parser hands them to the walker                     *)

FunctionTypes ==
  {"FunctionDeclaration", "FunctionExpression", "ArrowFunctionExpression"}

\* Node kinds that carry child statements or expressions in this model.
ContainerTypes == {"Program", "BlockStatement"} \cup FunctionTypes

NoCallee == [type |-> "undefined", name |-> "undefined"]
NoLiteral == [type |-> "undefined", typeofValue |-> "undefined", value |-> ""]

StringLiteral(s) == [type |-> "Literal", typeofValue |-> "string", value |-> s]
NumberLiteral(s) == [type |-> "Literal", typeofValue |-> "number", value |-> s]
Identifier(name) == [type |-> "Identifier", typeofValue |-> "undefined", value |-> name]

Plain(type) ==
  [type |-> type, callee |-> NoCallee, arguments |-> <<>>, source |-> NoLiteral]

\* import x from '<s>'
ImportDeclaration(s) ==
  [type |-> "ImportDeclaration", callee |-> NoCallee, arguments |-> <<>>,
   source |-> StringLiteral(s)]

\* <name>(<args>)
Call(name, args) ==
  [type |-> "CallExpression", callee |-> [type |-> "Identifier", name |-> name],
   arguments |-> args, source |-> NoLiteral]

\* import('<s>') as a call whose callee is the Import token
DynamicImportCall(s) ==
  [type |-> "CallExpression", callee |-> [type |-> "Import", name |-> "undefined"],
   arguments |-> <<StringLiteral(s)>>, source |-> NoLiteral]

\* import('<s>') as an ESTree ImportExpression
ImportExpression(s) ==
  [type |-> "ImportExpression", callee |-> NoCallee, arguments |-> <<>>,
   source |-> StringLiteral(s)]

WithParent(d, p) ==
  [type |-> d.type, parent |-> p, callee |-> d.callee,
   arguments |-> d.arguments, source |-> d.source]

RECURSIVE Ancestors(_, _)
Ancestors(t, n) ==
  IF t[n].parent = 0 THEN {}
  ELSE {t[n].parent} \cup Ancestors(t, t[n].parent)

\* The ids of n's children, in field and sequence order.
Children(t, n) ==
  SelectSeq([i \in 1..Len(t) |-> i], LAMBDA i : t[i].parent = n)

\* Every tree of one more node than t: the new node is the next one in
\* pre-order, so its parent lies on the path from the root to t's last node.
Extend(t, descs) ==
  { Append(t, WithParent(d, p)) :
      d \in descs,
      p \in { a \in Ancestors(t, Len(t)) \cup {Len(t)} :
                t[a].type \in ContainerTypes } }

RECURSIVE TreesOfSize(_, _)
TreesOfSize(k, descs) ==
  IF k = 0 THEN { <<WithParent(Plain("Program"), 0)>> }
  ELSE UNION { Extend(t, descs) : t \in TreesOfSize(k - 1, descs) }

Trees(max, descs) == UNION { TreesOfSize(k, descs) : k \in 0..max }

-----------------------------------------------------------------------------
(* The parser (acorn), as lint calls it                                     *)

\* The first attempt's options, had it not allowed a top-level return.
ModuleOptionsNoReturn ==
  [sourceType |-> "module", allowImportExportEverywhere |-> TRUE,
   allowReturnOutsideFunction |-> FALSE]

\* The options of lint's first parse() call, and of its second.
ModuleOptions ==
  [sourceType |-> "module", allowImportExportEverywhere |-> TRUE,
   allowReturnOutsideFunction |-> TRUE]

ScriptOptions ==
  [sourceType |-> "script", allowImportExportEverywhere |-> FALSE,
   allowReturnOutsideFunction |-> TRUE]

\* A source text: its tree, whether it has a return statement outside any
\* function, whether it uses a construct only the script grammar accepts
\* (a with statement, a legacy octal literal, ...), whether it is no program
\* under either grammar.
Source(tree, topLevelReturn, sloppy) ==
  [tree |-> tree, topLevelReturn |-> topLevelReturn, sloppy |-> sloppy,
   garbage |-> FALSE]

Garbage ==
  [tree |-> <<>>, topLevelReturn |-> FALSE, sloppy |-> FALSE, garbage |-> TRUE]

NoAst == <<>>

HasImportDeclaration(t) == \E n \in DOMAIN t : t[n].type = "ImportDeclaration"
HasNestedImportDeclaration(t) ==
  \E n \in DOMAIN t : t[n].type = "ImportDeclaration" /\ t[n].parent # 1

\* parse(content, options): the tree, or a SyntaxError (ok = FALSE).
parse(c, options) ==
  LET fails ==
        \/ c.garbage
        \/ c.topLevelReturn /\ ~options.allowReturnOutsideFunction
        \/ options.sourceType = "module" /\ c.sloppy
        \/ options.sourceType = "script" /\ HasImportDeclaration(c.tree)
        \/ /\ options.sourceType = "module"
           /\ ~options.allowImportExportEverywhere
           /\ HasNestedImportDeclaration(c.tree)
  IN  IF fails THEN [ok |-> FALSE, ast |-> NoAst]
      ELSE [ok |-> TRUE, ast |-> c.tree]

-----------------------------------------------------------------------------
(* checkLazyImportHeavyDeps: one walkNode visit                             *)

\* The two accumulator sets as walkNode leaves them after the
\* ImportDeclaration test.
checkImportDeclaration(node, depth, sets) ==
  IF node.type = "ImportDeclaration" /\ depth = 0
     /\ isHeavyDependency(node.source.value)
  THEN [sets EXCEPT !.top = SetAdd(@, node.source.value)]
  ELSE sets

\* ... after the require() test: flagged whatever the depth.
checkRequireCallAnyDepth(node, depth, sets) ==
  IF /\ node.type = "CallExpression"
     /\ node.callee.name = "require" /\ Len(node.arguments) > 0
     /\ node.arguments[1].type = "Literal"
     /\ node.arguments[1].typeofValue = "string"
     /\ isHeavyDependency(node.arguments[1].value)
  THEN [sets EXCEPT !.top = SetAdd(@, node.arguments[1].value)]
  ELSE sets

checkRequireCall(node, depth, sets) ==
  IF /\ node.type = "CallExpression"
     /\ node.callee.name = "require" /\ Len(node.arguments) > 0
     /\ node.arguments[1].type = "Literal"
     /\ node.arguments[1].typeofValue = "string"
     /\ isHeavyDependency(node.arguments[1].value)
  THEN IF depth = 0
       THEN [sets EXCEPT !.top = SetAdd(@, node.arguments[1].value)]
       ELSE [sets EXCEPT !.lazy = SetAdd(@, node.arguments[1].value)]
  ELSE sets

\* ... after the dynamic import test: treated like require().
checkDynamicImportByDepth(node, depth, sets) ==
  IF /\ node.type = "CallExpression"
     /\ node.callee.type = "Import" /\ Len(node.arguments) > 0
     /\ node.arguments[1].type = "Literal"
     /\ node.arguments[1].typeofValue = "string"
     /\ isHeavyDependency(node.arguments[1].value)
  THEN IF depth = 0
       THEN [sets EXCEPT !.top = SetAdd(@, node.arguments[1].value)]
       ELSE [sets EXCEPT !.lazy = SetAdd(@, node.arguments[1].value)]
  ELSE sets

checkDynamicImport(node, depth, sets) ==
  IF /\ node.type = "CallExpression"
     /\ node.callee.type = "Import" /\ Len(node.arguments) > 0
     /\ node.arguments[1].type = "Literal"
     /\ node.arguments[1].typeofValue = "string"
     /\ isHeavyDependency(node.arguments[1].value)
  THEN [sets EXCEPT !.lazy = SetAdd(@, node.arguments[1].value)]
  ELSE sets

isFunctionNode(node) ==
  \/ node.type = "FunctionDeclaration"
  \/ node.type = "FunctionExpression"
  \/ node.type = "ArrowFunctionExpression"

\* The diagnostic pushed for one entry of topLevelImports.
Diagnostic(file, module) ==
  [file |-> file,
   rule |-> "lazy-import-heavy-js-deps",
   message |-> "Heavy dependency '" \o module \o
               "' should be lazily loaded to improve startup performance. Consider using dynamic import() or require() inside functions.",
   severity |-> "warning"]

\* this.errors replaced by the file's diagnostics instead of extended.
reportErrorsOverwrite(errs, file, top) ==
  [i \in 1..Len(top) |-> Diagnostic(file, top[i])]

\* this.errors after topLevelImports.forEach(... this.errors.push(...)).
reportErrors(errs, file, top) ==
  errs \o [i \in 1..Len(top) |-> Diagnostic(file, top[i])]

-----------------------------------------------------------------------------
(* What one analysis owes, read off the tree                                *)

\* The number of function-like nodes enclosing node n.
Depth(t, n) ==
  Cardinality({ a \in Ancestors(t, n) : t[a].type \in FunctionTypes })

IsStaticImport(node) == node.type = "ImportDeclaration"

IsRequireOfLiteral(node) ==
  /\ node.type = "CallExpression"
  /\ node.callee.type = "Identifier" /\ node.callee.name = "require"
  /\ Len(node.arguments) > 0
  /\ node.arguments[1].type = "Literal"
  /\ node.arguments[1].typeofValue = "string"

IsDynamicImportOfLiteral(node) ==
  \/ /\ node.type = "CallExpression" /\ node.callee.type = "Import"
     /\ Len(node.arguments) > 0
     /\ node.arguments[1].type = "Literal"
     /\ node.arguments[1].typeofValue = "string"
  \/ node.type = "ImportExpression" /\ node.source.type = "Literal"

Specifier(node) ==
  IF node.type = "CallExpression" THEN node.arguments[1].value
  ELSE node.source.value

\* The depth-0 static imports and require calls of heavy dependencies.
TopLevelHeavySites(t) ==
  { n \in DOMAIN t :
      /\ IsStaticImport(t[n]) \/ IsRequireOfLiteral(t[n])
      /\ Depth(t, n) = 0
      /\ isHeavyDependency(Specifier(t[n])) }

FlaggedSpecifiers(t) == { Specifier(t[n]) : n \in TopLevelHeavySites(t) }

Min(S) == CHOOSE m \in S : \A x \in S : m <= x

\* The first occurrence of specifier s among the depth-0 heavy sites, in
\* pre-order (nodes are numbered in pre-order).
FirstSite(t, s) == Min({ n \in TopLevelHeavySites(t) : Specifier(t[n]) = s })

RECURSIVE Ascending(_)
Ascending(S) ==
  IF S = {} THEN <<>> ELSE <<Min(S)>> \o Ascending(S \ {Min(S)})

Parsable(c) == parse(c, ModuleOptions).ok \/ parse(c, ScriptOptions).ok

\* The diagnostics one lint(file, c) owes: none for an unparsable source,
\* else one per flagged specifier, ordered by first occurrence.
FileDiagnostics(file, c) ==
  IF ~Parsable(c) THEN <<>>
  ELSE LET firsts == Ascending({ FirstSite(c.tree, s) :
                                   s \in FlaggedSpecifiers(c.tree) })
       IN  [i \in 1..Len(firsts) |->
              Diagnostic(file, Specifier(c.tree[firsts[i]]))]

-----------------------------------------------------------------------------
(* Inputs                                                                   *)

MaxNodes == 2      \* nodes below Program in a walked tree of any node kinds
MaxCoreNodes == 3  \* nodes below Program in a walked tree of the core kinds
MaxCalls == 3      \* lint()/reset() calls in a batch

FilePaths == {"lib/a.js", "lib/b.js"}

WalkDescs ==
  { Plain("BlockStatement"), Plain("FunctionDeclaration"),
    Plain("FunctionExpression"), Plain("ArrowFunctionExpression"),
    ImportDeclaration("webpack"), ImportDeclaration("fs"),
    Call("require", <<StringLiteral("webpack")>>),
    Call("require", <<StringLiteral("lodash/fp")>>),
    Call("require", <<StringLiteral("fs")>>),
    Call("require", <<Identifier("name")>>),
    Call("require", <<NumberLiteral("42")>>),
    Call("require", <<>>),
    Call("load", <<StringLiteral("webpack")>>),
    DynamicImportCall("webpack"),
    ImportExpression("webpack") }

\* The kinds the classification turns on: a block, two function kinds, and
\* the three import forms.
CoreDescs ==
  { Plain("BlockStatement"), Plain("FunctionDeclaration"),
    Plain("ArrowFunctionExpression"),
    ImportDeclaration("webpack"),
    Call("require", <<StringLiteral("webpack")>>),
    Call("require", <<StringLiteral("lodash/fp")>>),
    DynamicImportCall("webpack") }

WalkTrees == Trees(MaxNodes, WalkDescs) \cup Trees(MaxCoreNodes, CoreDescs)

WalkContents == { Source(t, FALSE, FALSE) : t \in WalkTrees }

\* The tree of a program whose top-level statements are stmts.
TreeOf(stmts) ==
  <<WithParent(Plain("Program"), 0)>> \o
  [i \in 1..Len(stmts) |-> WithParent(stmts[i], 1)]

BatchTrees ==
  { TreeOf(<<>>),
    TreeOf(<<Call("require", <<StringLiteral("webpack")>>)>>),
    TreeOf(<<ImportDeclaration("lodash/fp")>>),
    \* function f() { require('lodash/fp') }
    Append(TreeOf(<<Plain("FunctionDeclaration")>>),
           WithParent(Call("require", <<StringLiteral("lodash/fp")>>), 2)) }

BatchContents ==
  {Garbage} \cup
  { Source(t, r, s) : t \in BatchTrees, r \in BOOLEAN, s \in BOOLEAN }

\* Specifiers put to the matcher: a known or unknown name, behind a scope
\* prefix, before a sub-path or a word suffix.
Prefixes == {"", "@", "@@", "@myorg/"}
BaseNames == { HEAVY_DEPENDENCIES[i] : i \in DOMAIN HEAVY_DEPENDENCIES } \cup {"fs"}
Suffixes == {"", "x", "/", "/lib/Foo", "/cli"}
Specifiers == { p \o b \o x : p \in Prefixes, b \in BaseNames, x \in Suffixes }

\* The heavy-dependency set a configuration may ask for: the built-in list,
\* or none at all.
DefaultConfig == [heavyDependencies |-> "default"]
Configs == { DefaultConfig, [heavyDependencies |-> "empty"] }

NoContent ==
  [tree |-> NoAst, topLevelReturn |-> FALSE, sloppy |-> FALSE, garbage |-> FALSE]

-----------------------------------------------------------------------------
(* State machine                                                            *)

\* new DustyLinter()
InitWith(configs) ==
  /\ query = "" /\ answer = FALSE
  /\ config \in configs
  /\ errors = <<>>
  /\ calls = 0 /\ pc = "idle"
  /\ filePath = "" /\ content = NoContent
  /\ attempts = <<>> /\ warned = FALSE
  /\ ast = NoAst /\ stack = <<>>
  /\ currentDepth = 0 /\ topLevelImports = <<>> /\ lazyImports = <<>>
  /\ expected = <<>>

Init == InitWith({DefaultConfig})

InitBatch == InitWith(Configs)

\* linter.isHeavyDependency(s), called directly
isHeavyDependencyCall(s) ==
  /\ pc = "idle"
  /\ query' = s
  /\ answer' = isHeavyDependency(s)
  /\ UNCHANGED <<config, lintVars>>

\* The parse attempts lint makes, in order, and what it ends with.
lintParse(c) ==
  LET m == parse(c, ModuleOptions)
      s == parse(c, ScriptOptions)
  IN  IF m.ok
      THEN [ok |-> TRUE, ast |-> m.ast,
            attempts |-> <<[sourceType |-> "module", ok |-> TRUE]>>]
      ELSE [ok |-> s.ok, ast |-> s.ast,
            attempts |-> <<[sourceType |-> "module", ok |-> FALSE],
                           [sourceType |-> "script", ok |-> s.ok]>>]

\* this.errors after a double parse failure, had the catch block pushed a
\* diagnostic for it.
errorsAfterParseReported(errs, file, r) ==
  IF r.ok THEN errs
  ELSE Append(errs, [file |-> file, rule |-> "parse-error",
                     message |-> "Unable to parse", severity |-> "warning"])

\* this.errors when lint's parse attempts are over: untouched.
errorsAfterParse(errs, file, r) == errs

\* linter.lint(file, c), up to the call of walkNode(ast); on a double parse
\* failure the whole call (console.warn and return).
lint(file, c) ==
  /\ pc = "idle"
  /\ LET r == lintParse(c) IN
       /\ attempts' = r.attempts
       /\ warned' = ~r.ok
       /\ ast' = r.ast
       /\ pc' = IF r.ok THEN "walk" ELSE "idle"
       /\ stack' = IF r.ok THEN <<[node |-> 1, phase |-> "enter"]>> ELSE <<>>
  /\ filePath' = file
  /\ content' = c
  /\ calls' = calls + 1
  /\ currentDepth' = 0
  /\ topLevelImports' = <<>>
  /\ lazyImports' = <<>>
  /\ errors' = errorsAfterParse(errors, file, lintParse(c))
  /\ expected' = expected \o FileDiagnostics(file, c)
  /\ UNCHANGED <<config, matchVars>>

\* currentDepth with the decrement on leaving a function node left out.
depthAfterExitNoDecrement(node, depth) == depth

\* currentDepth after the loop over a node's children.
depthAfterExit(node, depth) ==
  IF isFunctionNode(node) THEN depth - 1 ELSE depth

\* walkNode(node), from its entry to the loop over its children.
walkNodeEnter ==
  /\ pc = "walk" /\ stack # <<>> /\ Head(stack).phase = "enter"
  /\ LET n == Head(stack).node
         node == ast[n]
         s0 == [top |-> topLevelImports, lazy |-> lazyImports]
         s1 == checkImportDeclaration(node, currentDepth, s0)
         s2 == checkRequireCall(node, currentDepth, s1)
         s3 == checkDynamicImport(node, currentDepth, s2)
         kids == Children(ast, n)
     IN  /\ topLevelImports' = s3.top
         /\ lazyImports' = s3.lazy
         /\ currentDepth' = IF isFunctionNode(node) THEN currentDepth + 1
                            ELSE currentDepth
         /\ stack' = [i \in 1..Len(kids) |-> [node |-> kids[i], phase |-> "enter"]]
                     \o (IF isFunctionNode(node)
                         THEN <<[node |-> n, phase |-> "exit"]>> ELSE <<>>)
                     \o Tail(stack)
  /\ UNCHANGED <<errors, calls, pc, filePath, content, attempts, warned, ast,
                 expected, config, matchVars>>

\* walkNode(node), after the loop over its children (a function node; for any
\* other node the rest of walkNode changes nothing).
walkNodeExit ==
  /\ pc = "walk" /\ stack # <<>> /\ Head(stack).phase = "exit"
  /\ currentDepth' = depthAfterExit(ast[Head(stack).node], currentDepth)
  /\ stack' = Tail(stack)
  /\ UNCHANGED <<errors, calls, pc, filePath, content, attempts, warned, ast,
                 topLevelImports, lazyImports, expected, config, matchVars>>

\* checkLazyImportHeavyDeps after walkNode(ast): the report, and lint returns.
report ==
  /\ pc = "walk" /\ stack = <<>>
  /\ errors' = reportErrors(errors, filePath, topLevelImports)
  /\ pc' = "idle"
  /\ UNCHANGED <<calls, filePath, content, attempts, warned, ast, stack,
                 currentDepth, topLevelImports, lazyImports, expected, config,
                 matchVars>>

\* this.errors after reset()
errorsAfterReset(errs) == <<>>

\* linter.getErrors()
getErrors == errors

\* linter.reset()
reset ==
  /\ pc = "idle"
  /\ errors' = errorsAfterReset(errors)
  /\ expected' = <<>>
  /\ calls' = calls + 1
  /\ filePath' = "" /\ content' = NoContent
  /\ attempts' = <<>> /\ warned' = FALSE
  /\ ast' = NoAst
  /\ currentDepth' = 0 /\ topLevelImports' = <<>> /\ lazyImports' = <<>>
  /\ UNCHANGED <<pc, stack, config, matchVars>>

\* One analysis of one file.
Next ==
  \/ calls = 0 /\ \E f \in FilePaths, c \in WalkContents : lint(f, c)
  \/ walkNodeEnter
  \/ walkNodeExit
  \/ report

Spec == Init /\ [][Next]_vars

\* A batch: lint and reset calls on one linter, as lintFiles and its callers
\* make them.
NextBatch ==
  \/ calls < MaxCalls /\ \E f \in FilePaths, c \in BatchContents : lint(f, c)
  \/ calls < MaxCalls /\ reset
  \/ walkNodeEnter
  \/ walkNodeExit
  \/ report

SpecBatch == InitBatch /\ [][NextBatch]_vars

\* One direct call of the matcher.
NextMatch == query = "" /\ \E s \in Specifiers : isHeavyDependencyCall(s)

SpecMatch == Init /\ [][NextMatch]_vars

-----------------------------------------------------------------------------
(* Claims                                                                   *)

HeavySet == { HEAVY_DEPENDENCIES[i] : i \in DOMAIN HEAVY_DEPENDENCIES }

\* The matching rule as stated: exact, sub-path, or "@" + d + "/" for an
\* unscoped d.
StatedHeavy(s) ==
  \/ s \in HeavySet
  \/ \E d \in HeavySet : startsWith(s, d \o "/")
  \/ \E d \in HeavySet : ~startsWith(d, "@") /\ startsWith(s, "@" \o d \o "/")

\* C1: the matcher returns true exactly when the specifier is in the heavy
\* set, or starts with d + "/" for a heavy d, or starts with "@" + d + "/"
\* for a heavy d that does not itself start with "@".
C1_MatcherIffStatedRules ==
  query # "" => (answer <=> StatedHeavy(query))

\* C2 as stated: the organization fork "@myorg/webpack" of the heavy
\* "webpack" is matched.
C2_OrgForkMatched ==
  query = "@myorg/webpack" => answer = TRUE

\* C2 as amended: a specifier in the scope named after an unscoped heavy
\* name ("@webpack/cli" for "webpack") is matched, and the organization fork
\* "@myorg/webpack" is not.
C2_ScopeNamedAfterPackageMatched ==
  /\ \A d \in HeavySet :
       (~startsWith(d, "@") /\ query # "" /\ startsWith(query, "@" \o d \o "/"))
         => answer = TRUE
  /\ query = "@myorg/webpack" => answer = FALSE

C2_Witness ==
  query = "@webpack/cli" /\ answer = TRUE

\* The analysis of the file is over.
Analysed == pc = "idle" /\ ast # NoAst

\* The positions in this.errors of the diagnostics whose message names s.
About(s) ==
  { i \in DOMAIN errors : errors[i].message = Diagnostic(filePath, s).message }

IsHeavyRequire(node) ==
  IsRequireOfLiteral(node) /\ isHeavyDependency(Specifier(node))

\* C3: after the analysis of a tree, a require(<heavy string literal>) with
\* no enclosing function-like node has exactly one diagnostic, which carries
\* the rule id and the file's path, blocks around it or not; one inside a
\* function has none (unless the same specifier is also imported at depth 0).
C3_RequireFlaggedIffTopLevel ==
  Analysed =>
    \A n \in DOMAIN ast :
      IsHeavyRequire(ast[n]) =>
        LET s == Specifier(ast[n]) IN
          IF Depth(ast, n) = 0
          THEN /\ Cardinality(About(s)) = 1
               /\ \A i \in About(s) :
                    /\ errors[i].rule = "lazy-import-heavy-js-deps"
                    /\ errors[i].file = filePath
          ELSE s \notin FlaggedSpecifiers(ast) => About(s) = {}

\* function f() { require('lodash/fp') }  require('webpack')
C3_Witness ==
  /\ Analysed
  /\ Len(ast) = 4
  /\ ast[2].type = "FunctionDeclaration"
  /\ IsHeavyRequire(ast[3]) /\ ast[3].parent = 2 /\ Specifier(ast[3]) = "lodash/fp"
  /\ IsHeavyRequire(ast[4]) /\ ast[4].parent = 1 /\ Specifier(ast[4]) = "webpack"
  /\ errors = <<Diagnostic(filePath, "webpack")>>

\* C4: a dynamic import of a heavy dependency puts nothing in the top-level
\* set and produces no diagnostic, at any depth: while its specifier has no
\* depth-0 static import or require, the specifier is not in topLevelImports
\* and no diagnostic names it; as a call with an Import callee it is in
\* lazyImports once the walk is over.
C4_DynamicImportNeverFlagged ==
  \A n \in DOMAIN ast :
    (IsDynamicImportOfLiteral(ast[n]) /\ isHeavyDependency(Specifier(ast[n]))) =>
      LET s == Specifier(ast[n]) IN
        /\ s \notin FlaggedSpecifiers(ast) =>
             ~includes(topLevelImports, s) /\ About(s) = {}
        /\ (Analysed /\ ast[n].type = "CallExpression") => includes(lazyImports, s)

\* import('webpack') at depth 0, and nothing else
C4_Witness ==
  /\ Analysed
  /\ Len(ast) = 2
  /\ IsDynamicImportOfLiteral(ast[2]) /\ ast[2].type = "CallExpression"
  /\ Depth(ast, 2) = 0
  /\ errors = <<>>
  /\ lazyImports = <<"webpack">>

\* C5: one analysis leaves exactly one diagnostic per distinct heavy
\* specifier of the depth-0 static imports and require calls, nothing else,
\* ordered by the first occurrence of each specifier in pre-order.
C5_OneDiagnosticPerSpecifierInOrder ==
  Analysed =>
    /\ \A s \in FlaggedSpecifiers(ast) :
         Cardinality({ i \in DOMAIN errors : errors[i] = Diagnostic(filePath, s) }) = 1
    /\ \A i \in DOMAIN errors :
         \E s \in FlaggedSpecifiers(ast) : errors[i] = Diagnostic(filePath, s)
    /\ \A s1, s2 \in FlaggedSpecifiers(ast) :
         \A i, j \in DOMAIN errors :
           ( /\ errors[i] = Diagnostic(filePath, s1)
             /\ errors[j] = Diagnostic(filePath, s2)
             /\ FirstSite(ast, s1) < FirstSite(ast, s2) ) => i < j
    /\ errors = FileDiagnostics(filePath, content)

\* require('lodash/fp'); import 'webpack'; require('lodash/fp')
C5_Witness ==
  /\ Analysed
  /\ Len(ast) = 4
  /\ IsHeavyRequire(ast[2]) /\ Specifier(ast[2]) = "lodash/fp" /\ ast[2].parent = 1
  /\ IsStaticImport(ast[3]) /\ Specifier(ast[3]) = "webpack" /\ ast[3].parent = 1
  /\ IsHeavyRequire(ast[4]) /\ Specifier(ast[4]) = "lodash/fp" /\ ast[4].parent = 1
  /\ errors = <<Diagnostic(filePath, "lodash/fp"), Diagnostic(filePath, "webpack")>>

\* C6: getErrors() is the concatenation, in call order, of the per-file
\* diagnostics of the lint calls made since the last reset() (the file in
\* analysis not yet included); reset() leaves it empty.
C6_ErrorsAccumulateSinceReset ==
  expected = getErrors \o (IF pc = "walk" THEN FileDiagnostics(filePath, content)
                        ELSE <<>>)

\* three calls, the diagnostics of two files in call order
C6_Witness ==
  /\ pc = "idle" /\ calls = 3
  /\ errors = <<Diagnostic("lib/b.js", "webpack"), Diagnostic("lib/a.js", "lodash/fp")>>

BothAttemptsFailed ==
  <<[sourceType |-> "module", ok |-> FALSE], [sourceType |-> "script", ok |-> FALSE]>>

\* C7: a lint call on a source that parses under neither grammar returns
\* (a warning printed, nothing raised) after both attempts and leaves
\* this.errors as it was, so the other files' diagnostics are untouched.
C7_ParseFailureIsolated ==
  [][ \A f \in FilePaths, c \in BatchContents :
        (lint(f, c) /\ ~Parsable(c)) =>
          /\ errors' = errors
          /\ pc' = "idle"
          /\ warned'
          /\ attempts' = BothAttemptsFailed ]_vars

\* a file with a diagnostic, then an unparsable one
C7_Witness ==
  /\ pc = "idle" /\ calls = 2
  /\ content.garbage /\ warned
  /\ attempts = BothAttemptsFailed
  /\ Len(errors) = 1

\* C8: with an empty heavy-dependency set configured, no file has a
\* diagnostic.
C8_EmptyHeavySetNoDiagnostics ==
  config.heavyDependencies = "empty" => errors = <<>>

Diagnosed ==
  \A s \in FlaggedSpecifiers(ast) :
    \E i \in DOMAIN errors : errors[i] = Diagnostic(filePath, s)

\* C9: the depth counter is never negative, at every node the walk enters it
\* is the number of enclosing function-like nodes, and when no node is left
\* to visit it is 0 again.
C9_DepthBalanced ==
  /\ currentDepth >= 0
  /\ (pc = "walk" /\ stack # <<>> /\ Head(stack).phase = "enter")
       => currentDepth = Depth(ast, Head(stack).node)
  /\ stack = <<>> => currentDepth = 0

\* the walk of a tree with a function inside a function is over
C9_Witness ==
  /\ pc = "walk" /\ stack = <<>>
  /\ \E n \in DOMAIN ast : Depth(ast, n) = 2
  /\ currentDepth = 0

\* C10 as stated: a source with a top-level return is analysed by the script
\* attempt, made after the module attempt failed.
C10_TopLevelReturnViaScriptAttempt ==
  (content.topLevelReturn /\ parse(content, ScriptOptions).ok) =>
    /\ attempts = <<[sourceType |-> "module", ok |-> FALSE],
                    [sourceType |-> "script", ok |-> TRUE]>>
    /\ ~warned
    /\ pc = "idle" => Diagnosed

\* C10 as amended: a source with a top-level return that is a program under
\* either grammar is analysed, not a parse failure: the module attempt
\* already accepts the return, and the script attempt is made only when the
\* module attempt fails on a script-only construct; the tree is walked and
\* its top-level heavy imports are diagnosed.
C10_TopLevelReturnAnalysed ==
  (content.topLevelReturn /\ Parsable(content)) =>
    /\ attempts = IF content.sloppy
                  THEN <<[sourceType |-> "module", ok |-> FALSE],
                         [sourceType |-> "script", ok |-> TRUE]>>
                  ELSE <<[sourceType |-> "module", ok |-> TRUE]>>
    /\ ~warned
    /\ ast = content.tree
    /\ pc = "idle" => Diagnosed

\* return; require('webpack'): analysed by the module attempt
C10_Witness ==
  /\ pc = "idle"
  /\ content.topLevelReturn /\ ~content.sloppy
  /\ attempts = <<[sourceType |-> "module", ok |-> TRUE]>>
  /\ errors = <<Diagnostic(filePath, "webpack")>>

====
